---- MODULE Spec2Model ----
(***************************************************************************)
(* The incense session timer of src/incense-timer/src/app/page.tsx: the    *)
(* React state of Home (totalDuration, remaining, isRunning, history), the *)
(* localStorage item behind loadHistory/persistHistory, the interval timer *)
(* of the tick effect, and the four click/slider handlers.                 *)
(*                                                                         *)
(* How React runs the component is modelled as follows.                    *)
(*  - A click or slider event runs its handler and React (18, which the    *)
(*    app router requires) commits the re-render and flushes its effects   *)
(*    before the next event or timer callback runs, so a handler together  *)
(*    with the effects it causes is one action.                            *)
(*  - localStorage.setItem succeeds in Spec and SpecRun; in SpecFail it    *)
(*    may start to throw (quota exceeded) at any moment.                   *)
(*  - An exception that leaves an effect or an updater is not caught by    *)
(*    any error boundary of the repository: React unmounts the page.       *)
(*  - The interval callback runs its setRemaining updater once (production *)
(*    build), and the commit that follows is part of the same action.      *)
(*  - Mounting is two steps: the effects of the first render, then the     *)
(*    re-render caused by setHistory(loadHistory()).                       *)
(*  - The effects run in the browser only, so the branches                 *)
(*    `typeof window === "undefined"` are never taken.                     *)
(***************************************************************************)
EXTENDS Integers, Sequences, FiniteSets, TLC

(***************************************************************************)
(* Program constants.                                                      *)
(***************************************************************************)
DEFAULT_DURATION == 25 * 60

HISTORY_LIMIT == 20

INTERVAL_MS == 1000

MS_PER_SECOND == 1000

SLIDER_MIN == 5

SLIDER_MAX == 60

SLIDER_STEP == 5

SECONDS_PER_MINUTE == 60

(***************************************************************************)
(* Bounds of the model.                                                    *)
(***************************************************************************)
\* Number of slider positions (from the smallest) the user moves to in Spec.
MaxSliderPositions == 1

\* Number of sessions that are started and may complete in Spec.
MaxCompletions == 2

\* Number of sessions run back to back in SpecRun.
MaxSessions == 21

\* Wall-clock reading (ms) of the first Date.now() of the run.
Now0 == 100000000

\* The first UTC day at which the page is loaded (2024-01-30), and the number
\* of days from it on.
FirstDay == 19752

MaxDays == 4

\* SpecLive: the longest session in minutes, and the number of sessions.
MaxLiveMinutes == 10

MaxLiveSessions == 2

Min(a, b) == IF a < b THEN a ELSE b

(***************************************************************************)
(* JavaScript values as far as the code looks at them: the typeof result   *)
(* and, for numbers and for strings of decimal digits, the number.         *)
(***************************************************************************)
Num(n) == [t |-> "number", v |-> n]

Str(n) == [t |-> "string", v |-> n]

Undefined == [t |-> "undefined", v |-> 0]

\* `${endedAt}`: the decimal string of a number.
TemplateString(x) == Str(x.v)

\* An element of the parsed array: an object with the four fields of
\* SessionRecord (a missing field reads as undefined), the value null (reading
\* a property of it throws a TypeError), or another primitive (every property
\* of it reads as undefined).
Entry(id, startedAt, endedAt, duration) ==
    [kind |-> "object", id |-> id, startedAt |-> startedAt,
     endedAt |-> endedAt, duration |-> duration]

NullEntry ==
    [kind |-> "null", id |-> Undefined, startedAt |-> Undefined,
     endedAt |-> Undefined, duration |-> Undefined]

PrimitiveEntry ==
    [kind |-> "primitive", id |-> Undefined, startedAt |-> Undefined,
     endedAt |-> Undefined, duration |-> Undefined]

(***************************************************************************)
(* The configuration surface: the range input and its onChange.            *)
(***************************************************************************)
SliderValues == {m \in SLIDER_MIN..SLIDER_MAX : (m - SLIDER_MIN) % SLIDER_STEP = 0}

Durations == {m * SECONDS_PER_MINUTE : m \in SliderValues}

\* The positions the user moves the slider to in Spec.
SliderInputs ==
    {m * SECONDS_PER_MINUTE :
        m \in {s \in SliderValues : s < SLIDER_MIN + MaxSliderPositions * SLIDER_STEP}}

(***************************************************************************)
(* The localStorage item under STORAGE_KEY: absent (getItem returns null), *)
(* the empty string, a string that is not JSON, the JSON of a value that   *)
(* is not an array, or the JSON of an array.                               *)
(***************************************************************************)
ItemMissing == [kind |-> "missing", items |-> <<>>]

ItemEmptyString == [kind |-> "empty", items |-> <<>>]

ItemNotJson == [kind |-> "invalid", items |-> <<>>]

ItemNotArray == [kind |-> "nonarray", items |-> <<>>]

\* JSON.stringify(history): the JSON text of the array. A field that is
\* undefined is left out of the text and reads as undefined after parsing, so
\* an array and its text are written with the same entries.
JSONStringify(value) == [kind |-> "array", items |-> value]

\* JSON.parse(raw): throws a SyntaxError on text that is not JSON.
JSONParse(raw) ==
    [threw |-> raw.kind = "invalid",
     isArray |-> raw.kind = "array",
     items |-> IF raw.kind = "array" THEN raw.items ELSE <<>>]

TypeOf(x) == x.t

\* (entry) => typeof entry.endedAt === "number" && typeof entry.duration === "number"
IsValidEntry(entry) ==
    TypeOf(entry.endedAt) = "number" /\ TypeOf(entry.duration) = "number"

\* One step of the stable sort by (a, b) => b.endedAt - a.endedAt: e goes
\* after every element whose endedAt is not smaller.
InsertDesc(sorted, e) ==
    LET k == Cardinality({i \in DOMAIN sorted : sorted[i].endedAt.v >= e.endedAt.v})
    IN SubSeq(sorted, 1, k) \o <<e>> \o SubSeq(sorted, k + 1, Len(sorted))

RECURSIVE SortByEndedAtDesc(_)
SortByEndedAtDesc(s) ==
    IF s = <<>> THEN <<>>
    ELSE InsertDesc(SortByEndedAtDesc(SubSeq(s, 1, Len(s) - 1)), s[Len(s)])

\* array.slice(0, n)
Slice(s, n) == SubSeq(s, 1, Min(n, Len(s)))

Returned(value) == [threw |-> FALSE, value |-> value]

Thrown == [threw |-> TRUE, value |-> <<>>]

\* The try block of loadHistory, given what getItem returned: JSON.parse
\* throws on text that is not JSON, parsed.filter is not a function when the
\* value is not an array, and the filter callback throws on a null entry.
tryLoad(raw) ==
    IF raw.kind \in {"missing", "empty"} THEN Returned(<<>>)
    ELSE LET parsed == JSONParse(raw) IN
         IF parsed.threw THEN Thrown
         ELSE IF ~parsed.isArray THEN Thrown
         ELSE IF \E i \in DOMAIN parsed.items : parsed.items[i].kind = "null" THEN Thrown
         ELSE Returned(SortByEndedAtDesc(SelectSeq(parsed.items, IsValidEntry)))

\* loadHistory with a fault: no try/catch around the block.
loadHistoryOutcomeUncaught(raw) == tryLoad(raw)

\* loadHistory() with its catch: every exception of the try block ends in
\* `return []`.
loadHistoryOutcome(raw) ==
    IF tryLoad(raw).threw THEN Returned(<<>>) ELSE tryLoad(raw)

\* loadHistory(), given what getItem returned: the array it returns.
loadHistory(raw) == loadHistoryOutcome(raw).value

\* persistHistory(history): what setItem leaves in the store.
persistHistory(h) == JSONStringify(h)

(***************************************************************************)
(* State.                                                                  *)
(***************************************************************************)
VARIABLES
    totalDuration,  \* useState(DEFAULT_DURATION)
    remaining,      \* useState(DEFAULT_DURATION)
    isRunning,      \* useState(false)
    history,        \* useState([])
    store,          \* the localStorage item under STORAGE_KEY
    interval,       \* the interval of the tick effect and the totalDuration its callback closed over
    phase,          \* "initial": first render done; "effects": its effects ran; "ready": re-rendered
    now,            \* the wall clock (ms) that the next Date.now() returns
    completions,    \* history variable: sessions completed in this run
    ticksDue,       \* history variable: ticks the running session still needs, counted from its start
    startedWith,    \* history variable: totalDuration when the session was started
    lastOp,         \* history variable: the operation that led to this state
    prev,           \* history variable: remaining, isRunning and lastOp before that operation, and its argument
    timers,         \* the number of intervals armed by setInterval and not yet cleared
    chimes,         \* the number of calls of chime()
    saves,          \* the number of calls of persistHistory
    storageFull,    \* whether localStorage.setItem throws
    daily           \* the daily reflection: see PageLoad

vars == <<totalDuration, remaining, isRunning, history, store, interval, phase, now,
          completions, ticksDue, startedWith, lastOp, prev,
          timers, chimes, saves, storageFull, daily>>

NoInterval == [armed |-> FALSE, totalDuration |-> 0]

\* window.setInterval(callback, 1000) of a render that saw totalDuration d
Armed(d) == [armed |-> TRUE, totalDuration |-> d]

\* The state an operation found, and the value it was called with (0: none).
Before(value) ==
    [remaining |-> remaining, isRunning |-> isRunning, op |-> lastOp, value |-> value,
     stored |-> store.kind]

\* The tick effect with a fault: it has no cleanup, so the interval of the
\* previous render stays armed.
TickEffectNoCleanup(running, d) ==
    /\ interval' = IF running THEN Armed(d) ELSE NoInterval
    /\ timers' = timers + (IF running THEN 1 ELSE 0)

\* The tick effect with a fault: `if (!isRunning) return` is missing.
TickEffectAlwaysArms(running, d) ==
    /\ interval' = Armed(d)
    /\ timers' = (timers - (IF interval.armed THEN 1 ELSE 0)) + 1

\* The tick effect with a fault: the interval is cleared by the cleanup of
\* every commit but armed only by the commit that set isRunning.
TickEffectNoRearm(running, d) ==
    /\ interval' = IF running /\ ~isRunning THEN Armed(d) ELSE NoInterval
    /\ timers' = (timers - (IF interval.armed THEN 1 ELSE 0))
                   + (IF running /\ ~isRunning THEN 1 ELSE 0)

\* The tick effect at a commit whose render saw isRunning = running and
\* totalDuration = d: the cleanup of the previous run clears its interval (a
\* no-op when it armed none or when the callback cleared it already), then
\* the effect arms a new interval if running.
TickEffect(running, d) ==
    /\ interval' = IF running THEN Armed(d) ELSE NoInterval
    /\ timers' = (timers - (IF interval.armed THEN 1 ELSE 0))
                   + (IF running THEN 1 ELSE 0)

\* buildSessionRecord with a fault: startedAt computed without the conversion of
\* seconds to milliseconds.
buildSessionRecordInSeconds(durationInSeconds) ==
    LET endedAt == Num(now) IN
    Entry(TemplateString(endedAt),
          Num(endedAt.v - durationInSeconds),
          endedAt,
          Num(durationInSeconds))

\* buildSessionRecord(durationInSeconds), Date.now() being `now`
buildSessionRecord(durationInSeconds) ==
    LET endedAt == Num(now) IN
    Entry(TemplateString(endedAt),
          Num(endedAt.v - durationInSeconds * MS_PER_SECOND),
          endedAt,
          Num(durationInSeconds))

(***************************************************************************)
(* What the store may hold when the page is opened.                        *)
(***************************************************************************)
\* The record of the k-th most recent earlier session, as an earlier run of
\* the page wrote it.
StoredRecord(k) ==
    LET endedAt == Now0 - k * DEFAULT_DURATION * MS_PER_SECOND IN
    Entry(Str(endedAt), Num(endedAt - DEFAULT_DURATION * MS_PER_SECOND),
          Num(endedAt), Num(DEFAULT_DURATION))

StoredRecords(n) == [k \in 1..n |-> StoredRecord(k)]

\* A full history, newest first.
StoreFull == JSONStringify(StoredRecords(HISTORY_LIMIT))

\* One record more than the page itself ever writes.
StoreOverfull == JSONStringify(StoredRecords(HISTORY_LIMIT + 1))

\* Well-formed records out of order, among objects that lack a field or hold
\* one of the wrong type, and an element that is a number.
StoreShuffled ==
    JSONStringify(<<StoredRecord(2),
                    Entry(Str(7), Num(7), Num(7), Undefined),
                    StoredRecord(1),
                    Entry(Str(8), Num(8), Str(8), Num(DEFAULT_DURATION)),
                    PrimitiveEntry,
                    StoredRecord(3)>>)

\* A null among well-formed records.
StoreWithNull == JSONStringify(<<StoredRecord(1), NullEntry, StoredRecord(2)>>)

\* Two well-formed records that carry the same id.
StoreSameId ==
    JSONStringify(<<StoredRecord(1), [StoredRecord(2) EXCEPT !.id = StoredRecord(1).id]>>)

\* A record stamped by a clock that ran ahead of the present one.
StoreAhead ==
    JSONStringify(<<[StoredRecord(1) EXCEPT !.endedAt = Num(Now0 + DEFAULT_DURATION * MS_PER_SECOND)]>>)

InitialStores ==
    {ItemMissing, ItemEmptyString, ItemNotJson, ItemNotArray,
     StoreFull, StoreOverfull, StoreShuffled, StoreWithNull, StoreSameId, StoreAhead}

(***************************************************************************)
(* The daily reflection: todaysQuote, computed by useMemo with no           *)
(* dependencies, so once for each load of the page.                        *)
(* An instant is a UTC day, counted from 1970-01-01, and an hour of that   *)
(* day; a zone is the offset of local time from UTC in hours.              *)
(***************************************************************************)
QUOTES_length == 6

\* The proleptic Gregorian date <<year, month, day>> of a day counted from
\* 1970-01-01, as Date computes it.
CivilFromDays(n) ==
    LET z == n + 719468
        era == z \div 146097
        doe == z - era * 146097
        yoe == (doe - doe \div 1460 + doe \div 36524 - doe \div 146096) \div 365
        doy == doe - (365 * yoe + yoe \div 4 - yoe \div 100)
        mp == (5 * doy + 2) \div 153
        d == doy - (153 * mp + 2) \div 5 + 1
        m == IF mp < 10 THEN mp + 3 ELSE mp - 9
        y == yoe + era * 400 + (IF m <= 2 THEN 1 ELSE 0)
    IN <<y, m, d>>

\* n written with w decimal digits, zero-padded.
PadStart(n, w) == [i \in 1..w |-> (n \div (10 ^ (w - i))) % 10]

RECURSIVE parseInt(_)
\* parseInt(part, 10) of a string of decimal digits
parseInt(digits) ==
    IF digits = <<>> THEN 0
    ELSE 10 * parseInt(SubSeq(digits, 1, Len(digits) - 1)) + digits[Len(digits)]

\* new Date().toISOString().slice(0, 10).split("-"): the UTC date of the
\* instant as "YYYY", "MM", "DD".
dayIndexParts(at) ==
    LET date == CivilFromDays(at.day) IN
    <<PadStart(date[1], 4), PadStart(date[2], 2), PadStart(date[3], 2)>>

\* dayIndex.split("-").reduce((acc, part) => acc + parseInt(part, 10), 0)
hash(at) ==
    LET parts == dayIndexParts(at) IN
    parseInt(parts[1]) + parseInt(parts[2]) + parseInt(parts[3])

\* The index in QUOTES of todaysQuote, for a page loaded at the instant.
todaysQuote(at) == hash(at) % QUOTES_length

\* The instants and zones at which the page is loaded.
Instants == {[day |-> FirstDay + k, hour |-> h] : k \in 0..(MaxDays - 1), h \in {0, 6, 12, 18}}

Zones == {0 - 8, 0, 9}

Later(t, u) == u.day > t.day \/ (u.day = t.day /\ u.hour >= t.hour)

\* The page is loaded at the instant, for the first time.
FirstLoad(zone, at) ==
    [zone |-> zone, at |-> at, shown |-> todaysQuote(at),
     lastAt |-> at, lastShown |-> todaysQuote(at)]

(***************************************************************************)
(* Init: Home has rendered once with its initial state; no effect has run. *)
(***************************************************************************)
Init ==
    /\ totalDuration = DEFAULT_DURATION
    /\ remaining = DEFAULT_DURATION
    /\ isRunning = FALSE
    /\ history = <<>>
    /\ store \in InitialStores
    /\ interval = NoInterval
    /\ phase = "initial"
    /\ now = Now0
    /\ completions = 0
    /\ ticksDue = 0
    /\ startedWith = 0
    /\ lastOp = "render"
    /\ prev = [remaining |-> DEFAULT_DURATION, isRunning |-> FALSE, op |-> "render", value |-> 0,
               stored |-> store.kind]
    /\ timers = 0
    /\ chimes = 0
    /\ saves = 0
    /\ storageFull = FALSE
    /\ daily = FirstLoad(0, [day |-> FirstDay, hour |-> 0])

(***************************************************************************)
(* Mounting.                                                               *)
(***************************************************************************)
\* The effects of the first render, in order: setHistory(loadHistory());
\* persistHistory(history) with the history of that render, which is []; the
\* tick effect, which returns at once because isRunning is false.
\* An exception that leaves loadHistory or persistHistory leaves the effect:
\* the page is unmounted.
MountEffects ==
    /\ phase = "initial"
    /\ IF loadHistoryOutcome(store).threw
       THEN /\ phase' = "crashed"
            /\ UNCHANGED <<history, store, saves>>
       ELSE IF storageFull
       THEN /\ phase' = "crashed"
            /\ saves' = saves + 1
            /\ UNCHANGED <<history, store>>
       ELSE /\ history' = loadHistory(store)
            /\ store' = persistHistory(history)
            /\ saves' = saves + 1
            /\ phase' = "effects"
    /\ lastOp' = "load"
    /\ prev' = Before(0)
    /\ UNCHANGED <<totalDuration, remaining, isRunning, interval, now,
                   completions, ticksDue, startedWith>>
    /\ UNCHANGED <<timers, chimes, storageFull, daily>>

\* MountRerender with a fault: the persist effect has no dependency, so it
\* does not run again when history changes.
MountRerenderNoPersist ==
    /\ phase = "effects"
    /\ phase' = "ready"
    /\ lastOp' = "mounted"
    /\ prev' = Before(0)
    /\ UNCHANGED <<totalDuration, remaining, isRunning, history, store, interval, now,
                   completions, ticksDue, startedWith>>
    /\ UNCHANGED <<timers, chimes, saves, storageFull, daily>>

\* The re-render that setHistory caused (the loaded array is a new object, so
\* the state changed): the persist effect runs again, with the loaded history.
MountRerender ==
    /\ phase = "effects"
    /\ IF storageFull
       THEN /\ phase' = "crashed"
            /\ UNCHANGED store
       ELSE /\ store' = persistHistory(history)
            /\ phase' = "ready"
    /\ saves' = saves + 1
    /\ lastOp' = "mounted"
    /\ prev' = Before(0)
    /\ UNCHANGED <<totalDuration, remaining, isRunning, history, interval, now,
                   completions, ticksDue, startedWith>>
    /\ UNCHANGED <<timers, chimes, storageFull, daily>>

(***************************************************************************)
(* The handlers. Each is followed by the commit of its re-render: the tick *)
(* effect's cleanup clears the interval of the previous render, and the    *)
(* effect arms a new one if isRunning is true.                             *)
(***************************************************************************)
\* handleStart with a fault: remaining is reseeded on every start.
handleStartReseeds ==
    /\ phase = "ready"
    /\ ~isRunning
    /\ remaining' = totalDuration
    /\ isRunning' = TRUE
    /\ TickEffect(TRUE, totalDuration)
    /\ ticksDue' = IF remaining = 0 THEN totalDuration ELSE remaining
    /\ startedWith' = totalDuration
    /\ lastOp' = "start"
    /\ prev' = Before(0)
    /\ UNCHANGED <<totalDuration, history, store, phase, now, completions>>
    /\ UNCHANGED <<chimes, saves, storageFull, daily>>

\* handleStart; the button shows Play, and so calls it, only while isRunning
\* is false.
handleStart ==
    /\ phase = "ready"
    /\ ~isRunning
    /\ remaining' = IF remaining <= 0 THEN totalDuration ELSE remaining
    /\ isRunning' = TRUE
    /\ TickEffect(TRUE, totalDuration)
    /\ ticksDue' = IF remaining = 0 THEN totalDuration ELSE remaining
    /\ startedWith' = totalDuration
    /\ lastOp' = "start"
    /\ prev' = Before(0)
    /\ UNCHANGED <<totalDuration, history, store, phase, now, completions>>
    /\ UNCHANGED <<chimes, saves, storageFull, daily>>

\* handlePause; the button shows Pause only while isRunning is true.
handlePause ==
    /\ phase = "ready"
    /\ isRunning
    /\ isRunning' = FALSE
    /\ TickEffect(FALSE, totalDuration)
    /\ ticksDue' = 0
    /\ lastOp' = "pause"
    /\ prev' = Before(0)
    /\ UNCHANGED <<totalDuration, remaining, history, store, phase, now,
                   completions, startedWith>>
    /\ UNCHANGED <<chimes, saves, storageFull, daily>>

\* handleReset with a fault: it records the session it abandons.
handleResetRecords ==
    /\ phase = "ready"
    /\ isRunning' = FALSE
    /\ remaining' = totalDuration
    /\ history' = IF isRunning
                  THEN Slice(<<buildSessionRecord(totalDuration)>> \o history, HISTORY_LIMIT)
                  ELSE history
    /\ store' = persistHistory(history')
    /\ TickEffect(FALSE, totalDuration)
    /\ ticksDue' = 0
    /\ startedWith' = 0
    /\ lastOp' = "reset"
    /\ prev' = Before(0)
    /\ UNCHANGED <<totalDuration, phase, now, completions>>
    /\ UNCHANGED <<chimes, saves, storageFull, daily>>

handleReset ==
    /\ phase = "ready"
    /\ isRunning' = FALSE
    /\ remaining' = totalDuration
    /\ TickEffect(FALSE, totalDuration)
    /\ ticksDue' = 0
    /\ startedWith' = 0
    /\ lastOp' = "reset"
    /\ prev' = Before(0)
    /\ UNCHANGED <<totalDuration, history, store, phase, now, completions>>
    /\ UNCHANGED <<chimes, saves, storageFull, daily>>

\* handleDurationChange with a fault: setRemaining(value) is missing.
handleDurationChangeKeepsRemaining(value) ==
    /\ phase = "ready"
    /\ totalDuration' = value
    /\ isRunning' = FALSE
    /\ TickEffect(FALSE, totalDuration)
    /\ ticksDue' = 0
    /\ startedWith' = 0
    /\ lastOp' = "setDuration"
    /\ prev' = Before(value)
    /\ UNCHANGED <<remaining, history, store, phase, now, completions>>
    /\ UNCHANGED <<chimes, saves, storageFull, daily>>

\* handleDurationChange with a fault: setIsRunning(false) is missing, so the
\* commit re-arms the interval of a running timer with the new totalDuration.
handleDurationChangeKeepsRunning(value) ==
    /\ phase = "ready"
    /\ totalDuration' = value
    /\ remaining' = value
    /\ TickEffect(isRunning, value)
    /\ ticksDue' = IF isRunning THEN value ELSE 0
    /\ startedWith' = IF isRunning THEN value ELSE 0
    /\ lastOp' = "setDuration"
    /\ prev' = Before(value)
    /\ UNCHANGED <<isRunning, history, store, phase, now, completions>>
    /\ UNCHANGED <<chimes, saves, storageFull, daily>>

handleDurationChange(value) ==
    /\ phase = "ready"
    /\ totalDuration' = value
    /\ remaining' = value
    /\ isRunning' = FALSE
    /\ TickEffect(FALSE, totalDuration)
    /\ ticksDue' = 0
    /\ startedWith' = 0
    /\ lastOp' = "setDuration"
    /\ prev' = Before(value)
    /\ UNCHANGED <<history, store, phase, now, completions>>
    /\ UNCHANGED <<chimes, saves, storageFull, daily>>

(***************************************************************************)
(* The interval callback, setRemaining((prev) => ...), and the commit that *)
(* follows it.                                                             *)
(***************************************************************************)
\* reachesZero with a fault: the comparison is off by one.
reachesZeroLate(prevRemaining) == prevRemaining <= 0

\* if (prev <= 1)
reachesZero(prevRemaining) == prevRemaining <= 1

\* nextHistory with a fault: the record is appended, not prepended.
nextHistoryAppended(record, prevHistory) == Slice(prevHistory \o <<record>>, HISTORY_LIMIT)

\* [buildSessionRecord(totalDuration), ...prevHistory].slice(0, 20)
nextHistory(record, prevHistory) == Slice(<<record>> \o prevHistory, HISTORY_LIMIT)

\* chimeCalls with a fault: chime() is called after the if, on every tick.
chimeCallsEveryTick(zero) == 1

\* The calls of chime() in one run of the updater: it is called in the branch
\* of prev <= 1 only.
chimeCalls(zero) == IF zero THEN 1 ELSE 0

\* The callback fires only while its interval is armed. On the last tick it
\* clears the interval, stops the timer and records the session, with the
\* totalDuration of the render that armed the interval; persistHistory runs
\* in the updater and again in the persist effect of the commit, with the
\* same array. Otherwise the commit re-runs the tick effect (its dependency
\* chime is a new function on every render), which clears the interval and
\* arms a new one.
\* Successive completions are at least one interval period apart; the clock
\* advances by that least amount between two readings.
\* When setItem throws, the exception leaves the setHistory updater, which
\* React runs while it renders Home: the interval is cleared and chime() was
\* called, but the render fails, no state of it is committed and the page is
\* unmounted.
Tick ==
    /\ phase = "ready"
    /\ interval.armed
    /\ IF reachesZero(remaining)
       THEN /\ TickEffect(FALSE, totalDuration)
            /\ lastOp' = "complete"
            /\ IF storageFull
               THEN /\ phase' = "crashed"
                    /\ saves' = saves + 1
                    /\ UNCHANGED <<remaining, isRunning, history, store, now, completions>>
               ELSE /\ remaining' = 0
                    /\ isRunning' = FALSE
                    /\ history' = nextHistory(buildSessionRecord(interval.totalDuration), history)
                    /\ store' = persistHistory(history')
                    /\ saves' = saves + 2
                    /\ now' = now + INTERVAL_MS
                    /\ completions' = completions + 1
                    /\ UNCHANGED phase
       ELSE /\ remaining' = remaining - 1
            /\ TickEffect(TRUE, totalDuration)
            /\ lastOp' = "tick"
            /\ UNCHANGED <<isRunning, history, store, now, completions, saves, phase>>
    /\ chimes' = chimes + chimeCalls(reachesZero(remaining))
    /\ ticksDue' = ticksDue - 1
    /\ prev' = Before(0)
    /\ UNCHANGED <<totalDuration, startedWith, storageFull, daily>>

(***************************************************************************)
(* Spec: the page from its first render, under every order of operations.  *)
(***************************************************************************)
Next ==
    \/ MountEffects
    \/ MountRerender
    \/ (completions < MaxCompletions /\ handleStart)
    \/ handlePause
    \/ handleReset
    \/ \E value \in SliderInputs : handleDurationChange(value)
    \/ Tick

Spec == Init /\ [][Next]_vars

(***************************************************************************)
(* SpecRun: sessions run back to back without interruption, for every      *)
(* duration the slider offers. It starts from the page mounted on an empty *)
(* store with the slider moved to the duration.                            *)
(***************************************************************************)
InitRun ==
    /\ totalDuration \in Durations
    /\ remaining = totalDuration
    /\ isRunning = FALSE
    /\ history = <<>>
    /\ store = persistHistory(<<>>)
    /\ interval = NoInterval
    /\ phase = "ready"
    /\ now = Now0
    /\ completions = 0
    /\ ticksDue = 0
    /\ startedWith = 0
    /\ lastOp = "setDuration"
    /\ prev = [remaining |-> DEFAULT_DURATION, isRunning |-> FALSE, op |-> "mounted",
               value |-> totalDuration, stored |-> "array"]
    /\ timers = 0
    /\ chimes = 0
    /\ saves = 2
    /\ storageFull = FALSE
    /\ daily = FirstLoad(0, [day |-> FirstDay, hour |-> 0])

NextRun ==
    \/ (completions < MaxSessions /\ handleStart)
    \/ Tick

SpecRun == InitRun /\ [][NextRun]_vars

(***************************************************************************)
(* SpecLive: SpecRun with the interval timer firing: while an interval is  *)
(* armed the browser runs its callback every INTERVAL_MS, so a tick that   *)
(* stays enabled is taken. Nothing obliges the user to press Start.        *)
(***************************************************************************)
InitLive ==
    /\ InitRun
    /\ totalDuration <= MaxLiveMinutes * SECONDS_PER_MINUTE

NextLive ==
    \/ (completions < MaxLiveSessions /\ handleStart)
    \/ Tick

SpecLive == InitLive /\ [][NextLive]_vars /\ WF_vars(Tick)

(***************************************************************************)
(* SpecFail: Spec in a browser whose localStorage may run out of quota     *)
(* (other pages of the origin fill it): from then on setItem throws.       *)
(***************************************************************************)
StorageFills ==
    /\ ~storageFull
    /\ storageFull' = TRUE
    /\ UNCHANGED <<totalDuration, remaining, isRunning, history, store, interval, phase, now,
                   completions, ticksDue, startedWith, lastOp, prev,
                   timers, chimes, saves, daily>>

NextFail ==
    \/ Next
    \/ StorageFills

SpecFail == Init /\ [][NextFail]_vars

(***************************************************************************)
(* SpecDaily: the page is loaded, and loaded again later, at instants of a *)
(* few days around the end of a month, in a zone west of UTC, in UTC and   *)
(* in a zone east of it. Every load starts from the first render.          *)
(***************************************************************************)
InitDaily ==
    /\ totalDuration = DEFAULT_DURATION
    /\ remaining = DEFAULT_DURATION
    /\ isRunning = FALSE
    /\ history = <<>>
    /\ store = ItemMissing
    /\ interval = NoInterval
    /\ phase = "initial"
    /\ now = Now0
    /\ completions = 0
    /\ ticksDue = 0
    /\ startedWith = 0
    /\ lastOp = "render"
    /\ prev = [remaining |-> DEFAULT_DURATION, isRunning |-> FALSE, op |-> "render", value |-> 0,
               stored |-> store.kind]
    /\ timers = 0
    /\ chimes = 0
    /\ saves = 0
    /\ storageFull = FALSE
    /\ daily \in {FirstLoad(zone, at) : zone \in Zones, at \in Instants}

\* The page is loaded again at a later instant: useMemo computes todaysQuote
\* anew in the first render.
Reload(at) ==
    /\ phase = "initial"
    /\ Later(daily.at, at)
    /\ daily' = [zone |-> daily.zone, at |-> at, shown |-> todaysQuote(at),
                 lastAt |-> daily.at, lastShown |-> daily.shown]
    /\ UNCHANGED <<totalDuration, remaining, isRunning, history, store, interval, phase, now,
                   completions, ticksDue, startedWith, lastOp, prev,
                   timers, chimes, saves, storageFull>>

NextDaily == \E at \in Instants : Reload(at)

SpecDaily == InitDaily /\ [][NextDaily]_vars

(***************************************************************************)
(* Properties.                                                             *)
(***************************************************************************)
\* The step on which the countdown reaches zero. Only the last tick of a
\* session takes remaining to 0: reset and the slider set it to a duration.
Completes == remaining # 0 /\ remaining' = 0

Ids(h) == {h[i].id : i \in DOMAIN h}

\* C1: for every duration d of the slider, from a stopped timer with
\* totalDuration = d and remaining = d or remaining = 0, start seeds remaining
\* with d and, counting the ticks since that start, the timer is running with
\* remaining = d - ticks before the d-th tick and is stopped with remaining = 0
\* after it.
C1_StartThenTicks ==
    lastOp \in {"start", "tick", "complete"} =>
        LET d == totalDuration
            ticks == d - ticksDue
        IN /\ d \in Durations
           /\ ticks \in 0..d
           /\ (ticks < d => isRunning /\ remaining = d - ticks)
           /\ (ticks = d => ~isRunning /\ remaining = 0)

\* C1 witness: the longest duration, run to its end a second time, so that
\* the second start found remaining = 0.
C1_Witness ==
    /\ totalDuration = SLIDER_MAX * SECONDS_PER_MINUTE
    /\ completions = 2
    /\ lastOp = "complete"
    /\ ticksDue = 0
    /\ remaining = 0
    /\ ~isRunning

\* C2: the step on which the countdown reaches zero puts exactly one new
\* record at the head of the history (the rest is the previous history, cut
\* at the limit); its duration is the totalDuration the session was started
\* with and endedAt - startedAt = duration * 1000.
C2_CompletionAddsOneRecord ==
    [][Completes =>
        /\ history' # <<>>
        /\ history' = Slice(<<history'[1]>> \o history, HISTORY_LIMIT)
        /\ completions' = completions + 1
        /\ history'[1].duration = Num(startedWith)
        /\ history'[1].endedAt.v - history'[1].startedAt.v
             = history'[1].duration.v * MS_PER_SECOND]_vars

\* C2 witness: a session of the slider's shortest duration has completed and
\* its record heads the history.
C2_Witness ==
    /\ lastOp = "complete"
    /\ startedWith = SLIDER_MIN * SECONDS_PER_MINUTE
    /\ history # <<>>
    /\ history[1].duration = Num(startedWith)
    /\ history[1].endedAt.v - history[1].startedAt.v = startedWith * MS_PER_SECOND

\* C3: the history in memory holds at most 20 records in every state and,
\* once the page has mounted, so does the array in the store.
C3_AtMostTwenty ==
    /\ Len(history) <= HISTORY_LIMIT
    /\ (phase = "ready" => store.kind = "array" /\ Len(store.items) <= HISTORY_LIMIT)

\* C4: a completion that finds 20 records puts the new record first, followed
\* by the previous first 19 in their order; in a run from an empty history the
\* history holds the records of the latest min(n, 20) of the n completions,
\* newest first, so after 21 the record of the first is gone.
C4_OldestEvicted ==
    /\ [][Completes /\ Len(history) = HISTORY_LIMIT =>
            /\ Len(history') = HISTORY_LIMIT
            /\ history'[1] = buildSessionRecord(startedWith)
            /\ \A i \in 1..(HISTORY_LIMIT - 1) : history'[i + 1] = history[i]]_vars
    /\ [](/\ Len(history) = Min(completions, HISTORY_LIMIT)
          /\ \A i \in DOMAIN history :
                history[i].endedAt = Num(Now0 + (completions - i) * INTERVAL_MS))

\* C4 witness: 21 sessions completed from an empty history; the record of the
\* first (ended at Now0) is absent and the record of the second is the last.
C4_Witness ==
    /\ completions = HISTORY_LIMIT + 1
    /\ Len(history) = HISTORY_LIMIT
    /\ Str(Now0) \notin Ids(history)
    /\ history[HISTORY_LIMIT].id = Str(Now0 + INTERVAL_MS)
    /\ history[1].id = Str(Now0 + HISTORY_LIMIT * INTERVAL_MS)

\* C5: no two records of the history have the same id.
C5_NoDuplicateIds ==
    \A i, j \in DOMAIN history : i # j => history[i].id # history[j].id

\* C6: the history is ordered by endedAt, latest first.
C6_NewestFirst ==
    \A i \in DOMAIN history :
        i < Len(history) => history[i].endedAt.v >= history[i + 1].endedAt.v

\* C7: 0 <= remaining <= totalDuration in every state.
C7_RemainingInRange == 0 <= remaining /\ remaining <= totalDuration

\* C7 witness: the slider was moved to a duration smaller than the remaining
\* time of that moment.
C7_Witness ==
    /\ lastOp = "setDuration"
    /\ prev.remaining > totalDuration
    /\ remaining = totalDuration

\* C8: pause leaves remaining as it is and stops the timer; a start that
\* follows a pause at remaining = r > 0 leaves remaining = r and runs the
\* timer; from a start on, the timer runs while ticks are still due and
\* remaining is the number of ticks still due, r at the start.
C8_PauseThenStartResumes ==
    /\ [][lastOp' = "pause" => remaining' = remaining /\ ~isRunning']_vars
    /\ [][lastOp = "pause" /\ lastOp' = "start" /\ remaining > 0 =>
            remaining' = remaining /\ ticksDue' = remaining /\ isRunning']_vars
    /\ [](lastOp \in {"start", "tick", "complete"} =>
            remaining = ticksDue /\ (isRunning <=> ticksDue > 0))

\* C8 witness: a timer paused part-way has been started again and shows the
\* remaining time it was paused at.
C8_Witness ==
    /\ lastOp = "start"
    /\ prev.op = "pause"
    /\ isRunning
    /\ 0 < remaining /\ remaining < totalDuration
    /\ remaining = prev.remaining

\* C9: setDuration(v), in whatever state, leaves totalDuration = v,
\* remaining = v and the timer stopped with no interval armed, and changes
\* neither the history nor the store: the session it interrupts is not
\* recorded.
C9_SetDurationStopsAndResets ==
    [][lastOp' = "setDuration" =>
        /\ totalDuration' = prev'.value
        /\ remaining' = prev'.value
        /\ ~isRunning'
        /\ ~interval'.armed
        /\ history' = history
        /\ store' = store
        /\ completions' = completions]_vars

\* C9 witness: the slider was moved while the timer was running, part-way
\* through a session.
C9_Witness ==
    /\ lastOp = "setDuration"
    /\ prev.isRunning
    /\ prev.remaining < DEFAULT_DURATION
    /\ ~isRunning
    /\ remaining = totalDuration

\* C10: the load of a stored array returns exactly its entries whose endedAt
\* and duration are numbers, as many as there are and each of them, whatever
\* the other entries are.
C10_LoadDropsOnlyMalformed ==
    [][phase = "initial" /\ phase' = "effects" /\ store.kind = "array" =>
        LET wellFormed == SelectSeq(store.items, IsValidEntry) IN
        /\ Len(history') = Len(wellFormed)
        /\ \A i \in DOMAIN wellFormed :
              \E j \in DOMAIN history' : history'[j] = wellFormed[i]]_vars


(***************************************************************************)
(* Loading and saving.                                                     *)
(***************************************************************************)
\* What getItem returns when the key is missing or holds no array.
NoArrayStored == {"missing", "empty", "invalid", "nonarray"}

\* C11: when the persisted value is missing, is not parseable or parses to
\* something that is not an array, the load effect ends without an exception
\* (the page is not unmounted) and with an empty history, and the re-render
\* that follows leaves the page ready, stopped, with an empty history.
C11_LoadFailsSoft ==
    [][/\ (phase = "initial" /\ store.kind \in NoArrayStored)
           => (phase' = "effects" /\ history' = <<>>)
       /\ (phase = "effects" /\ prev.stored \in NoArrayStored)
           => (phase' = "ready" /\ history' = <<>> /\ ~isRunning')]_vars

\* The load effect has run on a value that is not parseable.
C11_Witness ==
    /\ phase = "effects"
    /\ lastOp = "load"
    /\ prev.stored = "invalid"
    /\ history = <<>>


\* C12: a completion whose persistence write fails (setItem throws) still
\* ends the session: the page stays mounted (no error left the completion
\* step), remaining = 0, isRunning = false, and the record of the session is
\* the first of the in-memory history.
C12_WriteFailureContained ==
    lastOp = "complete"
        => /\ phase = "ready"
           /\ remaining = 0
           /\ ~isRunning
           /\ history # <<>>
           /\ history[1].duration = Num(startedWith)


(***************************************************************************)
(* The chime and the interval.                                             *)
(***************************************************************************)
\* C13: chime() is called once by every step that completes a session and by
\* no other step (start, pause, reset, setDuration, a tick that does not
\* reach zero, mounting), so the number of calls equals the number of
\* completions after every step.
C13_ChimeOncePerCompletion ==
    [][/\ completions' = completions + 1 => chimes' = chimes + 1
       /\ completions' = completions => chimes' = chimes
       /\ lastOp' # "complete" => chimes' = chimes
       /\ chimes' = completions']_vars

\* A second session has completed after operations of every kind.
C13_Witness ==
    /\ lastOp = "complete"
    /\ completions = 2
    /\ chimes = 2
    /\ totalDuration # DEFAULT_DURATION


C16_AtMostOneInterval ==
    /\ timers \in {0, 1}
    /\ timers = 1 => isRunning
    /\ interval.armed <=> timers = 1

\* The effect was re-run by the commit of a tick that followed a tick.
C16_Witness ==
    /\ lastOp = "tick"
    /\ prev.op = "tick"
    /\ isRunning
    /\ timers = 1


(***************************************************************************)
(* The daily reflection.                                                   *)
(***************************************************************************)
\* The calendar date <<year, month, day>> of the instant on a clock of the
\* zone.
LocalDate(zone, at) == CivilFromDays((at.day * 24 + at.hour + zone) \div 24)

\* C15: two loads of the page at instants of the same calendar day of the
\* local zone show the same quote, and the quote shown is the one at index
\* (year + month + day) mod QUOTES.length of that local date.
C15_SameLocalDaySameQuote ==
    LET today == LocalDate(daily.zone, daily.at) IN
    /\ today = LocalDate(daily.zone, daily.lastAt) => daily.shown = daily.lastShown
    /\ daily.shown = (today[1] + today[2] + today[3]) % QUOTES_length


(***************************************************************************)
(* What changes the history, and what writes it.                           *)
(***************************************************************************)
\* C17: start, pause, reset, setDuration and a tick that does not reach zero
\* leave the in-memory history and the persisted history as they were; the
\* in-memory history is changed only by the startup load and by a
\* completion.
C17_HistoryFrame ==
    [][/\ lastOp' \in {"start", "pause", "reset", "setDuration", "tick"}
           => (history' = history /\ store' = store)
       /\ history' # history => lastOp' \in {"load", "complete"}]_vars

\* A running session was abandoned by reset and nothing was recorded.
C17_Witness ==
    /\ lastOp = "reset"
    /\ prev.isRunning
    /\ prev.remaining < totalDuration
    /\ completions = 0
    /\ history = <<>>
    /\ store = persistHistory(<<>>)


\* C18: once the page is mounted, persistHistory has been called once for the
\* startup load and once for each completion, and at no other time.
C18_OneSavePerEvent ==
    phase = "ready" => saves = 1 + completions


\* A record with its four fields, each of its type.
IsWellFormed(entry) ==
    /\ entry.kind = "object"
    /\ TypeOf(entry.id) = "string"
    /\ TypeOf(entry.startedAt) = "number"
    /\ TypeOf(entry.endedAt) = "number"
    /\ TypeOf(entry.duration) = "number"

\* The store holds an array of at most HISTORY_LIMIT well-formed records.
HoldsRecords(raw) ==
    /\ raw.kind = "array"
    /\ Len(raw.items) <= HISTORY_LIMIT
    /\ \A i \in DOMAIN raw.items : IsWellFormed(raw.items[i])

Occurrences(s, e) == Cardinality({i \in DOMAIN s : s[i] = e})

\* The same records, each as many times, in whatever order.
SameRecords(s, t) ==
    /\ Len(s) = Len(t)
    /\ \A i \in DOMAIN s : Occurrences(s, s[i]) = Occurrences(t, s[i])

\* C19: opened on a store that holds n <= 20 well-formed records, the load
\* effect puts exactly those records in the in-memory history, and the
\* re-render that follows leaves the page ready with the history as it was
\* loaded and the store holding the array of that history: the empty array
\* that the first persist effect wrote is overwritten with the n records.
C19_StartupKeepsRecords ==
    [][/\ (phase = "initial" /\ HoldsRecords(store))
           => (phase' = "effects" /\ SameRecords(history', store.items))
       /\ phase = "effects"
           => /\ phase' = "ready"
              /\ history' = history
              /\ store'.kind = "array"
              /\ store'.items = history]_vars

\* The page is mounted on a store that held a full history: history and
\* store hold the twenty records.
C19_Witness ==
    /\ phase = "ready"
    /\ lastOp = "mounted"
    /\ history = StoredRecords(HISTORY_LIMIT)
    /\ store = StoreFull


(***************************************************************************)
(* Termination.                                                            *)
(***************************************************************************)
\* The session that was started has completed: the timer is stopped at zero,
\* the first record of the history is that of the session, and no interval
\* is armed, so no tick follows.
SessionCompleted ==
    /\ lastOp = "complete"
    /\ remaining = 0
    /\ ~isRunning
    /\ history # <<>>
    /\ history[1].duration = Num(startedWith)
    /\ history[1].endedAt = Num(now - INTERVAL_MS)
    /\ timers = 0
    /\ ~interval.armed

\* C20: with the interval firing as long as it is armed and no operation of
\* the user after start, a running timer eventually completes its session.
C20_RunningCompletes == isRunning ~> SessionCompleted

\* The last of the sessions has completed.
C20_Witness ==
    /\ SessionCompleted
    /\ completions = MaxLiveSessions
    /\ Len(history) = MaxLiveSessions

====
